---- MODULE Spec2Model ----
(***************************************************************************)
(* Docs-to-Site: image extraction and de-duplication, reference rewriting, *)
(* navigation synthesis and the conversion run, as state machines.         *)
(*                                                                         *)
(* Text is a sequence of one-character strings, so that Path.stem,         *)
(* str.lower, str.replace and the regular expressions of the source are    *)
(* computed character by character.  A character outside 7-bit ASCII is    *)
(* written as a token ("TM" for the trademark sign).                       *)
(***************************************************************************)
EXTENDS Integers, Sequences, FiniteSets, TLC

VARIABLES
    \* --- extract_pptx_images (image_processor.py) ---
    prs,               \* the presentation: picture shapes in slide-then-shape order
    hashOf,            \* the value hash() returns for each image's bytes
    is_available,      \* check_imagemagick() result of this environment
    ipc,               \* position in extract_pptx_images
    pos,               \* index of the shape the extraction loop is at
    first_occurrence,  \* hash -> index of the shape where first seen
    blob_to_image,     \* hash -> stable image name
    processed_images,  \* hashes whose extraction was started
    image_map,         \* name variant -> stable image name
    files,             \* file names present in doc_images_dir
    failed,            \* shapes whose extraction raised (logged and skipped)
    writes,            \* history: the writes to doc_images_dir, in order
    \* --- MkDocsConfig._build_nav_structure (mkdocs_config.py) ---
    converted_files,   \* path -> title, in insertion order
    npc,               \* position in _build_nav_structure
    nav,               \* the navigation list returned
    \* --- DocumentConverter.convert (converter.py) ---
    input_dir,         \* the supported files under the input directory, in walk order
    documents,         \* what get_documents returned
    rpc,               \* position in convert
    di,                \* index of the document the loop is at
    created,           \* what exists under the output directory
    run_converted,     \* self.converted_files of the run: output path -> title
    conversion_errors, \* documents whose conversion raised another exception
    inaccessible_files,\* documents that could not be accessed
    attempts,          \* history: the documents convert_document was called on
    config_calls,      \* history: invocations of generate_mkdocs_config
    error,             \* the exception convert raised, if any
    returned,          \* history: the documents whose convert_document call returned
    summary,           \* the counts convert logs at its end
    md_content,        \* output path -> the call whose text the Markdown file holds
    \* --- format_markdown (document_converter.py) ---
    original,          \* history: the image references of the text passed in
    ref_map,           \* the image_map argument
    content,           \* the image references of the text being rewritten
    fpc,               \* position in format_markdown
    matches,           \* the references re.finditer found for the second pass
    mi,                \* index of the match the second pass is at
    warnings,          \* references logged as "No mapping found"
    \* --- sanitize_filename, sanitize_title (utils.py) ---
    ufn,               \* the function called
    uarg,              \* its argument
    upc,               \* position: before the call, returned, applied again
    ures,              \* the value returned
    ures2,             \* the value returned when applied to ures
    \* --- MkDocsConfig.generate (mkdocs_config.py) ---
    custom_config,     \* what the user's configuration file holds, if one was given
    config_data,       \* self.config_data
    written_config,    \* the content of mkdocs.yml
    gpc,               \* position in generate
    \* --- DocumentConverter.get_documents (document_converter.py) ---
    tree,              \* what input_dir.rglob('*') yields, in its order
    found,             \* the documents list
    tk,                \* index of the entry the loop is at
    dpc,               \* position in get_documents
    \* --- the convert command (__main__.py, cli.py) ---
    command,           \* the command function that was invoked
    exit_code,         \* the exit status of the process, once it has ended
    \* --- ConverterUI: the worker thread and the cancel callback (ui.py) ---
    is_converting,     \* self.is_converting, written by the main thread, read by the worker
    wpc,               \* position of the worker in _convert_documents
    gui_documents,     \* what get_documents returned to the worker
    current,           \* the worker's count of documents it went on with
    succeeded,         \* self.converter.succeeded
    gui_inaccessible,  \* self.converter.inaccessible_files
    gui_errors,        \* self.converter.conversion_errors
    started,           \* history: conversions started, with the flag value read before
    completed,         \* history: the documents whose convert_document call ended
    observed,          \* history: the worker has read the flag as cleared
    generated          \* history: calls of mkdocs.generate

imgVars == <<prs, hashOf, is_available, ipc, pos, first_occurrence, blob_to_image,
             processed_images, image_map, files, failed, writes>>

navVars == <<converted_files, npc, nav>>

runVars == <<input_dir, documents, rpc, di, created, run_converted, conversion_errors,
             inaccessible_files, attempts, config_calls, error, returned, summary,
             md_content>>

fmtVars == <<original, ref_map, content, fpc, matches, mi, warnings>>

utilVars == <<ufn, uarg, upc, ures, ures2>>

cfgVars == <<custom_config, config_data, written_config, gpc>>

docsVars == <<tree, found, tk, dpc>>

cliVars == <<command, exit_code>>

guiVars == <<is_converting, wpc, gui_documents, current, succeeded, gui_inaccessible,
             gui_errors, started, completed, observed, generated>>

vars == <<imgVars, navVars, runVars, fmtVars, utilVars, cfgVars, docsVars, cliVars, guiVars>>

\* the variables each component leaves alone
notImg == <<navVars, runVars, fmtVars, utilVars, cfgVars, docsVars, cliVars, guiVars>>
notNav == <<imgVars, runVars, fmtVars, utilVars, cfgVars, docsVars, cliVars, guiVars>>
notRun == <<imgVars, navVars, fmtVars, utilVars, cfgVars, docsVars, cliVars, guiVars>>
notFmt == <<imgVars, navVars, runVars, utilVars, cfgVars, docsVars, cliVars, guiVars>>
notUtil == <<imgVars, navVars, runVars, fmtVars, cfgVars, docsVars, cliVars, guiVars>>
\* generate passes converted_files to _build_nav_structure and keeps its result
notCfg == <<imgVars, runVars, fmtVars, utilVars, docsVars, cliVars, guiVars, npc>>
notDocs == <<imgVars, navVars, runVars, fmtVars, utilVars, cfgVars, cliVars, guiVars>>

-----------------------------------------------------------------------------
(* Bounds of the model *)

MaxShapes == 3
MaxFiles == 3
MaxDocs == 3
MaxRefs == 2
MaxMapShapes == 2
MaxNameLen == 4
MaxTitleLen == 4
MaxCfgFiles == 2
MaxEntries == 3

-----------------------------------------------------------------------------
(* Text helpers: str and pathlib.PurePath operations used by the source *)

MaxOf(S) == CHOOSE m \in S : \A x \in S : x <= m

\* str.rfind, 1-based; 0 when absent
RFind(s, c) ==
    LET I == {i \in 1..Len(s) : s[i] = c}
    IN  IF I = {} THEN 0 ELSE MaxOf(I)

Range(f) == {f[x] : x \in DOMAIN f}

UpperChars == <<
    "A", "B", "C", "D", "E", "F", "G", "H", "I", "J", "K", "L", "M",
    "N", "O", "P", "Q", "R", "S", "T", "U", "V", "W", "X", "Y", "Z">>

LowerChars == <<
    "a", "b", "c", "d", "e", "f", "g", "h", "i", "j", "k", "l", "m",
    "n", "o", "p", "q", "r", "s", "t", "u", "v", "w", "x", "y", "z">>

\* c.lower() for the upper-case letters
LowerMap ==
    [c \in Range(UpperChars) |->
        LowerChars[CHOOSE i \in 1..Len(UpperChars) : UpperChars[i] = c]]

\* c.lower() for one character
LowerOf(c) == IF c \in DOMAIN LowerMap THEN LowerMap[c] ELSE c

\* str.lower()
Lower(s) == [i \in 1..Len(s) |-> LowerOf(s[i])]

\* chained str.replace(c, '') for every c in cs
RemoveChars(s, cs) == SelectSeq(s, LAMBDA c : c \notin cs)

\* str.replace(old, new) for one-character old and new
ReplaceChar(s, old, new) == [i \in 1..Len(s) |-> IF s[i] = old THEN new ELSE s[i]]

\* PurePath(s).name: the part after the last separator
PathName(s) == SubSeq(s, RFind(s, "/") + 1, Len(s))

\* the dot that starts the suffix of a file name, or 0: pathlib takes the last
\* dot unless it is the first or the last character of the name
SuffixDot(n) ==
    LET i == RFind(n, ".")
    IN  IF 1 < i /\ i < Len(n) THEN i ELSE 0

\* PurePath(s).suffix
PathSuffix(s) ==
    LET n == PathName(s)
        i == SuffixDot(n)
    IN  IF i = 0 THEN <<>> ELSE SubSeq(n, i, Len(n))

\* PurePath(s).stem
PathStem(s) ==
    LET n == PathName(s)
        i == SuffixDot(n)
    IN  IF i = 0 THEN n ELSE SubSeq(n, 1, i - 1)

\* PurePath(s).with_suffix(suf)
WithSuffix(s, suf) == SubSeq(s, 1, RFind(s, "/")) \o PathStem(s) \o suf

DigitChars == <<"0", "1", "2", "3", "4", "5", "6", "7", "8", "9">>

RECURSIVE Dec(_)
\* str(k) for a natural number k
Dec(k) == IF k < 10 THEN <<DigitChars[k + 1]>>
          ELSE Dec(k \div 10) \o <<DigitChars[(k % 10) + 1]>>

\* the navigation component is not running
NavIdle == converted_files = <<>> /\ npc = "idle" /\ nav = <<>>

\* no summary was computed
NoSummary == [total |-> 0, inaccessible |-> 0, failed |-> 0, succeeded |-> 0]

\* no conversion run is in progress
RunIdle ==
    /\ input_dir = <<>> /\ documents = <<>> /\ rpc = "idle" /\ di = 0 /\ created = {}
    /\ run_converted = <<>> /\ conversion_errors = <<>> /\ inaccessible_files = <<>>
    /\ attempts = <<>> /\ config_calls = 0 /\ error = "none"
    /\ returned = <<>> /\ summary = NoSummary /\ md_content = <<>>

\* no text is being formatted
FmtIdle ==
    /\ original = <<>> /\ ref_map = <<>> /\ content = <<>> /\ fpc = "idle"
    /\ matches = <<>> /\ mi = 0 /\ warnings = <<>>

\* no utility function is being called
UtilIdle == ufn = "none" /\ uarg = <<>> /\ upc = "idle" /\ ures = <<>> /\ ures2 = <<>>

\* no configuration is being generated
CfgIdle ==
    /\ custom_config = [kind |-> "none", data |-> <<>>]
    /\ config_data = [kind |-> "none", data |-> <<>>]
    /\ written_config = [kind |-> "none", data |-> <<>>]
    /\ gpc = "idle"

\* get_documents is not running
DocsIdle == tree = <<>> /\ found = <<>> /\ tk = 0 /\ dpc = "idle"

\* no command was invoked
CliIdle == command = "none" /\ exit_code = 0 - 1

\* no window is open
GuiIdle ==
    /\ is_converting = FALSE /\ wpc = "none" /\ gui_documents = <<>> /\ current = 0
    /\ succeeded = 0 /\ gui_inaccessible = <<>> /\ gui_errors = <<>>
    /\ started = <<>> /\ completed = <<>> /\ observed = FALSE /\ generated = 0

-----------------------------------------------------------------------------
(* image_processor.py: the presentation and its environment *)

\* image bytes of the model: one raster image and one metafile
Blobs == {"rasterBytes", "metafileBytes"}

\* shape.image raises for a shape whose image part cannot be read
Unreadable == "unreadable"

HashVals == {"h1", "h2"}

wmf == <<"w", "m", "f">>
png == <<"p", "n", "g">>

\* image.ext of the image with these bytes
ExtOf(blob) == IF blob = "metafileBytes" THEN wmf ELSE png

\* shape.name values of the model
ShapeNames == { <<"P", "i", "c", " ", "1">>, <<"p", "i", "c", "_", "1">> }

Shapes == [name : ShapeNames, blob : Blobs \cup {Unreadable}]

\* index of the first occurrence of x in the sequence s
IndexOf(s, x) == CHOOSE i \in 1..Len(s) : s[i] = x /\ \A j \in 1..(i - 1) : s[j] # x

\* utils.normalize_image_name: stem, lower-cased, spaces/underscores/dots stripped
normalize_image_name(name) == RemoveChars(Lower(PathStem(name)), {" ", "_", "."})

\* f"image_{image_count}.{ext}"
ImageName(k, ext) == <<"i", "m", "a", "g", "e", "_">> \o Dec(k) \o <<".">> \o ext

\* A dict keeps its keys in insertion order: a sequence of entries with
\* pairwise distinct keys.
Keys(d) == {d[n].key : n \in 1..Len(d)}

\* d[k], for a key of d
Get(d, k) == d[CHOOSE n \in 1..Len(d) : d[n].key = k].value

\* d[k] = v: a known key keeps its place, a new key goes to the end
Put(d, k, v) ==
    IF k \in Keys(d)
    THEN [n \in 1..Len(d) |-> IF d[n].key = k THEN [key |-> k, value |-> v] ELSE d[n]]
    ELSE Append(d, [key |-> k, value |-> v])

RECURSIVE PutAll(_, _, _)
\* d[k] = v for every k of the sequence ks, in order
PutAll(d, ks, v) == IF ks = <<>> THEN d ELSE PutAll(Put(d, Head(ks), v), Tail(ks), v)

RECURSIVE DictUpdate(_, _)
\* d.update(m)
DictUpdate(d, m) ==
    IF m = <<>> THEN d ELSE DictUpdate(Put(d, Head(m).key, Head(m).value), Tail(m))

\* the extensions create_image_mappings appends, in its order
MappingExts == << <<".", "j", "p", "g">>, <<".", "j", "p", "e", "g">>,
                  <<".", "p", "n", "g">>, <<".", "g", "i", "f">> >>

RECURSIVE ExtensionKeys(_, _)
\* the keys of the inner loop: normalized name + ext, stem + ext, ext by ext
ExtensionKeys(name, exts) ==
    IF exts = <<>> THEN <<>>
    ELSE <<normalize_image_name(name) \o Head(exts), PathStem(name) \o Head(exts)>>
            \o ExtensionKeys(name, Tail(exts))

MappingKeysRawNameOnly(name) == <<name>>

\* create_image_mappings: every key registered for one shape, in the order
\* the function assigns them (possible_names is [shape.name])
MappingKeys(name) ==
    <<name, PathName(name), normalize_image_name(name)>> \o ExtensionKeys(name, MappingExts)

create_image_mappings(name, image_name) == PutAll(<<>>, MappingKeys(name), image_name)

RECURSIVE FirstPass(_, _, _, _, _)
\* find_unique_images, first loop: the hashes in order of first appearance
\* and the shape where each was first seen
FirstPass(p, hf, i, ordered, first) ==
    IF i > Len(p) THEN [ordered_hashes |-> ordered, first_occurrence |-> first]
    ELSE IF p[i].blob = Unreadable THEN FirstPass(p, hf, i + 1, ordered, first)
    ELSE LET blob_hash == hf[p[i].blob]
         IN  IF blob_hash \in Range(ordered)
             THEN FirstPass(p, hf, i + 1, ordered, first)
             ELSE FirstPass(p, hf, i + 1, Append(ordered, blob_hash),
                            (blob_hash :> i) @@ first)

\* find_unique_images, second loop: the name given to the hash at rank k
AssignedName(p, k, shapeIdx) ==
    LET ext == Lower(ExtOf(p[shapeIdx].blob))
    IN  IF ext = wmf THEN ImageName(k, png) ELSE ImageName(k, ext)

\* find_unique_images: (first_occurrence, blob_to_image)
find_unique_images(p, hf) ==
    LET pass == FirstPass(p, hf, 1, <<>>, <<>>)
        ordered == pass.ordered_hashes
    IN  [first_occurrence |-> pass.first_occurrence,
         blob_to_image |->
            [h \in Range(ordered) |->
                AssignedName(p, IndexOf(ordered, h), pass.first_occurrence[h])]]

\* outcomes of convert_wmf_to_png: the path of an SVG, of a PNG, or None
ConvOutcomes == {"svg", "png", "none"}

\* the file the first occurrence of an image is saved as
SavedFile(image_name, image_ext, avail, conv) ==
    IF image_ext = wmf
    THEN IF avail /\ conv = "svg" THEN WithSuffix(image_name, <<".", "s", "v", "g">>)
         ELSE IF avail /\ conv = "png" THEN WithSuffix(image_name, <<".", "p", "n", "g">>)
         ELSE WithSuffix(image_name, <<".", "w", "m", "f">>)
    ELSE image_name

\* whether the file is written by open()/write() in extract_pptx_images itself
\* (and so can raise there) rather than by the converter
WrittenByOpen(image_ext, avail, conv) ==
    image_ext # wmf \/ ~avail \/ conv = "none"

ImgInit ==
    /\ prs \in UNION {[1..n -> Shapes] : n \in 1..MaxShapes}
    /\ hashOf \in [Blobs -> HashVals]
    /\ is_available \in BOOLEAN
    /\ ipc = "start"
    /\ pos = 0
    /\ first_occurrence = <<>>
    /\ blob_to_image = <<>>
    /\ processed_images = {}
    /\ image_map = <<>>
    /\ files = {}
    /\ failed = {}
    /\ writes = <<>>

\* the component is not running
ImgIdle ==
    /\ prs = <<>> /\ hashOf = <<>> /\ is_available = FALSE /\ ipc = "idle" /\ pos = 0
    /\ first_occurrence = <<>> /\ blob_to_image = <<>> /\ processed_images = {}
    /\ image_map = <<>> /\ files = {} /\ failed = {} /\ writes = <<>>

NeverProcessed(blob_hash, processed) == FALSE

\* the test of `if blob_hash not in processed_images:`
AlreadyProcessed(blob_hash, processed) == blob_hash \in processed

\* Presentation(document) raises: the outer except returns the empty map
ImgOpenFail ==
    /\ ipc = "start"
    /\ ipc' = "done"
    /\ UNCHANGED <<prs, hashOf, is_available, pos, first_occurrence, blob_to_image,
                   processed_images, image_map, files, failed>>
    /\ UNCHANGED writes
    /\ UNCHANGED notImg

\* prs = Presentation(document); find_unique_images(prs)
ImgFindUnique ==
    /\ ipc = "start"
    /\ LET r == find_unique_images(prs, hashOf)
       IN  /\ first_occurrence' = r.first_occurrence
           /\ blob_to_image' = r.blob_to_image
    /\ ipc' = "extract"
    /\ pos' = 1
    /\ UNCHANGED <<prs, hashOf, is_available, processed_images, image_map, files, failed>>
    /\ UNCHANGED writes
    /\ UNCHANGED notImg

\* one iteration of the extraction loop whose try body raises before the
\* name lookup succeeds: shape.image raises, or blob_to_image has no entry
ImgShapeSkipped ==
    /\ ipc = "extract" /\ pos <= Len(prs)
    /\ \/ prs[pos].blob = Unreadable
       \/ /\ prs[pos].blob # Unreadable
          /\ hashOf[prs[pos].blob] \notin DOMAIN blob_to_image
    /\ failed' = failed \cup {pos}
    /\ pos' = pos + 1
    /\ UNCHANGED <<prs, hashOf, is_available, ipc, first_occurrence, blob_to_image,
                   processed_images, image_map, files>>
    /\ UNCHANGED writes
    /\ UNCHANGED notImg

\* one iteration for a shape whose hash has not been processed: the hash is
\* recorded, then the image is converted or saved; the write may raise
ImgShapeFirst ==
    /\ ipc = "extract" /\ pos <= Len(prs)
    /\ prs[pos].blob # Unreadable
    /\ LET blob_hash == hashOf[prs[pos].blob]
           image_ext == Lower(ExtOf(prs[pos].blob))
       IN  /\ blob_hash \in DOMAIN blob_to_image
           /\ ~AlreadyProcessed(blob_hash, processed_images)
           /\ processed_images' = processed_images \cup {blob_hash}
           /\ \E conv \in ConvOutcomes, writeOk \in BOOLEAN :
                LET image_name == blob_to_image[blob_hash]
                    raised == WrittenByOpen(image_ext, is_available, conv) /\ ~writeOk
                IN  IF raised
                    THEN /\ failed' = failed \cup {pos}
                         /\ UNCHANGED <<files, image_map, writes>>
                    ELSE /\ files' = files \cup
                                {SavedFile(image_name, image_ext, is_available, conv)}
                         /\ writes' = Append(writes, [shape |-> pos, hash |-> blob_hash])
                         /\ image_map' = DictUpdate(image_map,
                                create_image_mappings(prs[pos].name, image_name))
                         /\ UNCHANGED failed
    /\ pos' = pos + 1
    /\ UNCHANGED <<prs, hashOf, is_available, ipc, first_occurrence, blob_to_image>>
    /\ UNCHANGED notImg

\* one iteration for a shape whose hash is already in processed_images:
\* nothing is written, the shape's name variants are registered
ImgShapeDuplicate ==
    /\ ipc = "extract" /\ pos <= Len(prs)
    /\ prs[pos].blob # Unreadable
    /\ LET blob_hash == hashOf[prs[pos].blob]
       IN  /\ blob_hash \in DOMAIN blob_to_image
           /\ AlreadyProcessed(blob_hash, processed_images)
           /\ image_map' = DictUpdate(image_map,
                  create_image_mappings(prs[pos].name, blob_to_image[blob_hash]))
    /\ pos' = pos + 1
    /\ UNCHANGED <<prs, hashOf, is_available, ipc, first_occurrence, blob_to_image,
                   processed_images, files, failed>>
    /\ UNCHANGED writes
    /\ UNCHANGED notImg

\* the loops are over: return image_map
ImgReturn ==
    /\ ipc = "extract" /\ pos > Len(prs)
    /\ ipc' = "done"
    /\ UNCHANGED <<prs, hashOf, is_available, pos, first_occurrence, blob_to_image,
                   processed_images, image_map, files, failed>>
    /\ UNCHANGED writes
    /\ UNCHANGED notImg

ImgNext ==
    \/ ImgOpenFail
    \/ ImgFindUnique
    \/ ImgShapeSkipped
    \/ ImgShapeFirst
    \/ ImgShapeDuplicate
    \/ ImgReturn

\* extraction of one presentation, nothing else running
InitImg == ImgInit /\ NavIdle /\ RunIdle /\ FmtIdle /\ UtilIdle /\ CfgIdle /\ DocsIdle /\ CliIdle /\ GuiIdle

SpecImg == InitImg /\ [][ImgNext]_vars

-----------------------------------------------------------------------------
(* Claims about extract_pptx_images and find_unique_images *)

\* the number of shapes whose bytes equal those of an earlier shape (M)
NumDuplicates(p) ==
    Cardinality({i \in 1..Len(p) : \E j \in 1..(i - 1) : p[j].blob = p[i].blob})

\* extraction returned after visiting every shape, no shape was unreadable
\* and no write raised
ExtractedWithoutFailure ==
    /\ ipc = "done" /\ pos = Len(prs) + 1
    /\ failed = {}
    /\ \A i \in 1..Len(prs) : prs[i].blob # Unreadable

\* C1: a presentation with N picture shapes of which M are byte-identical
\* duplicates of an earlier picture leaves exactly N - M files in the
\* document's image folder (stated for extractions in which nothing raised).
C1_WritesNMinusMFiles ==
    ExtractedWithoutFailure =>
        Cardinality(files) = Len(prs) - NumDuplicates(prs)

\* C2: when extract_pptx_images returns, every key of the returned map maps
\* to a stable name under which a file was written in the image folder.
C2_EveryKeyMapsToWrittenFile ==
    ipc = "done" => \A k \in Keys(image_map) : Get(image_map, k) \in files

\* the 1-based rank, among the distinct images in document order, of the
\* first occurrence of the image of shape i
FirstOccurrenceRank(p, i) ==
    LET firstIdx == CHOOSE j \in 1..i :
                        /\ p[j].blob = p[i].blob
                        /\ \A l \in 1..(j - 1) : p[l].blob # p[i].blob
    IN  Cardinality({p[j].blob : j \in 1..firstIdx} \ {Unreadable})

\* C3: the stable name of each distinct image is image_<k>, k the 1-based
\* rank of the image's first occurrence in document order, so that distinct
\* images have distinct names whatever the hash values are.
C3_NameIsRankOfFirstOccurrence ==
    (ipc \in {"extract", "done"} /\ pos > 0) =>
        \A i \in 1..Len(prs) :
            prs[i].blob # Unreadable =>
                /\ hashOf[prs[i].blob] \in DOMAIN blob_to_image
                /\ blob_to_image[hashOf[prs[i].blob]]
                      = ImageName(FirstOccurrenceRank(prs, i),
                                  IF Lower(ExtOf(prs[i].blob)) = wmf
                                  THEN png ELSE Lower(ExtOf(prs[i].blob)))

\* the shapes of p that carry an image with hash h
Carriers(p, hf, h) == {i \in 1..Len(p) : p[i].blob # Unreadable /\ hf[p[i].blob] = h}

\* the first of them in document order
FirstCarrier(p, hf, h) == CHOOSE i \in Carriers(p, hf, h) : \A j \in Carriers(p, hf, h) : i <= j

\* C20: each unique image (by content hash) is written at most once, the
\* write is made for the first shape that carries the hash, and every later
\* shape with the same hash, once the loop has passed it, has its name
\* variants in the map although it caused no write.
C20_WrittenAtMostOncePerHash ==
    /\ \A i, j \in 1..Len(writes) : writes[i].hash = writes[j].hash => i = j
    /\ \A i \in 1..Len(writes) : writes[i].shape = FirstCarrier(prs, hashOf, writes[i].hash)
    /\ ipc \in {"extract", "done"} =>
          \A q \in 1..(pos - 1) :
              (/\ prs[q].blob # Unreadable
               /\ FirstCarrier(prs, hashOf, hashOf[prs[q].blob]) < q)
                  => \A k \in 1..Len(MappingKeys(prs[q].name)) :
                        MappingKeys(prs[q].name)[k] \in Keys(image_map)

\* C20 witness: two shapes with different names carry the same image; the
\* run is over, one write was made, for the first shape, and the second
\* shape's name is a key of the map.
C20_Witness ==
    /\ ipc = "done" /\ Len(prs) >= 2
    /\ prs[1].blob # Unreadable /\ prs[2].blob = prs[1].blob
    /\ prs[1].name # prs[2].name
    /\ Len(writes) = 1 /\ writes[1].shape = 1
    /\ prs[2].name \in Keys(image_map)

\* shape q went through the extraction loop and nothing raised for it
ProcessedWithoutError(q) ==
    /\ ipc \in {"extract", "done"} /\ q < pos
    /\ prs[q].blob # Unreadable
    /\ q \notin failed

\* a file of the image folder holds the image of shape q, under its stable
\* name with whatever extension it was saved with
HasFile(q) ==
    \E f \in files : PathStem(f) = PathStem(blob_to_image[hashOf[prs[q].blob]])

\* C21: a failure on one picture shape skips that shape only: the function
\* returns after visiting every shape, and every shape for which nothing
\* raised has its name variants in the map and its image in the folder.
C21_FailureSkipsThatShapeOnly ==
    (ipc = "done" /\ pos > 0) =>
        /\ pos = Len(prs) + 1
        /\ \A q \in 1..Len(prs) :
              ProcessedWithoutError(q) =>
                  /\ \A k \in 1..Len(MappingKeys(prs[q].name)) :
                        MappingKeys(prs[q].name)[k] \in Keys(image_map)
                  /\ HasFile(q)

\* the keys the claim names for a shape called name: the raw name, its bare
\* filename part, its normalized form, and the normalized form followed by
\* each common image extension
NameVariants(name) ==
    {name, PathName(name), normalize_image_name(name)}
        \cup {normalize_image_name(name) \o ext :
                ext \in {<<".", "j", "p", "g">>, <<".", "j", "p", "e", "g">>,
                         <<".", "p", "n", "g">>, <<".", "g", "i", "f">>}}

\* C22: when extract_pptx_images returns, the map holds every name variant
\* of every shape for which nothing raised, first occurrence or duplicate,
\* metafile converted or not.
C22_AllVariantsRegistered ==
    ipc = "done" =>
        \A q \in 1..Len(prs) :
            ProcessedWithoutError(q) => NameVariants(prs[q].name) \subseteq Keys(image_map)

\* C22 witness: a metafile whose conversion failed was saved as .wmf, a
\* second shape with another name carries the same image, nothing raised.
C22_Witness ==
    /\ ipc = "done" /\ Len(prs) >= 2 /\ failed = {}
    /\ prs[1].blob = "metafileBytes" /\ prs[2].blob = "metafileBytes"
    /\ prs[1].name # prs[2].name
    /\ is_available /\ files = {WithSuffix(ImageName(1, png), <<".", "w", "m", "f">>)}
    /\ NameVariants(prs[2].name) \subseteq Keys(image_map)

\* C28: two picture shapes get the same stable name only if their image
\* bytes are identical, and an image whose bytes differ from those of every
\* earlier shape is written when nothing raises for it, whatever values the
\* hash function returns.
C28_SameNameOnlyForSameBytes ==
    (ipc \in {"extract", "done"} /\ pos > 0) =>
        /\ \A i, j \in 1..Len(prs) :
              (/\ prs[i].blob # Unreadable /\ prs[j].blob # Unreadable
               /\ hashOf[prs[i].blob] \in DOMAIN blob_to_image
               /\ hashOf[prs[j].blob] \in DOMAIN blob_to_image
               /\ blob_to_image[hashOf[prs[i].blob]] = blob_to_image[hashOf[prs[j].blob]])
                  => prs[i].blob = prs[j].blob
        /\ \A q \in 1..Len(prs) :
              (/\ ProcessedWithoutError(q)
               /\ \A e \in 1..(q - 1) : prs[e].blob # prs[q].blob)
                  => \E w \in 1..Len(writes) : writes[w].shape = q

\* C29: when extract_pptx_images returns, the map sends the raw name of
\* every shape for which nothing raised to the stable name of that shape's
\* own image: no later shape has re-pointed the entry to another image.
C29_RawNameMapsToOwnImage ==
    ipc = "done" =>
        \A q \in 1..Len(prs) :
            ProcessedWithoutError(q) =>
                /\ prs[q].name \in Keys(image_map)
                /\ Get(image_map, prs[q].name) = blob_to_image[hashOf[prs[q].blob]]

-----------------------------------------------------------------------------
(* utils.sanitize_title *)

\* characters for which str.isalnum() holds, among those of the model
AlnumChars == Range(UpperChars) \cup Range(LowerChars) \cup Range(DigitChars)

\* characters for which str.isspace() holds
SpaceChars == {" ", "\t", "\n"}

\* the replacements table: dashes to hyphen, trademark, registered and
\* copyright signs deleted, square brackets to parentheses
ReplacementOf(c) ==
    CASE c \in {"ENDASH", "EMDASH"} -> <<"-">>
      [] c \in {"TM", "REG", "COPY"} -> <<>>
      [] c = "[" -> <<"(">>
      [] c = "]" -> <<")">>
      [] OTHER -> <<c>>

RECURSIVE ApplyReplacements(_)
ApplyReplacements(s) ==
    IF s = <<>> THEN <<>> ELSE ReplacementOf(Head(s)) \o ApplyReplacements(Tail(s))

\* a filter that keeps every character
KeptInTitleEverything(c) == TRUE

\* the characters the filter keeps
KeptInTitle(c) == c \in AlnumChars \/ c \in SpaceChars \/ c \in {"(", ")", "-", ".", ","}

RECURSIVE JoinWords(_, _, _)
\* " ".join(s.split()): runs of whitespace become one space, none at the ends
JoinWords(s, out, pending) ==
    IF s = <<>> THEN out
    ELSE IF Head(s) \in SpaceChars
         THEN JoinWords(Tail(s), out, out # <<>>)
         ELSE JoinWords(Tail(s),
                        (IF pending THEN Append(out, " ") ELSE out) \o <<Head(s)>>,
                        FALSE)

sanitize_title(title) ==
    JoinWords(SelectSeq(ApplyReplacements(title), KeptInTitle), <<>>, FALSE)

-----------------------------------------------------------------------------
(* mkdocs_config.py: MkDocsConfig._build_nav_structure *)

\* str(file_path) of the i-th converted file, as a nested Windows path prints
DocPath(i) == <<"s", "\\", "f">> \o Dec(i)

\* titles of the model
Titles == { <<"A", " ", "-", " ", "X">>,
            <<"A", " ", "-", " ", "Y">>,
            <<"A", "TM", " ", "-", " ", "Y">>,
            <<"A">>,
            <<"B">>,
            <<" ", "-", " ", "X">> }

Separator == <<" ", "-", " ">>

\* str.find(" - "), 1-based; 0 when absent
FindSeparator(t) ==
    LET I == {i \in 1..(Len(t) - 2) : SubSeq(t, i, i + 2) = Separator}
    IN  IF I = {} THEN 0 ELSE CHOOSE i \in I : \A j \in I : i <= j

\* title.split(" - ", 1)
SplitTitle(t) ==
    LET i == FindSeparator(t)
    IN  IF i = 0 THEN <<t>> ELSE <<SubSeq(t, 1, i - 1), SubSeq(t, i + 3, Len(t))>>

\* prefix = parts[0] if len(parts) > 1 else ""
PrefixOf(t) == IF Len(SplitTitle(t)) > 1 THEN SplitTitle(t)[1] ELSE <<>>

\* str(file_path).replace('\\', '/')
PathString(path) == ReplaceChar(path, "\\", "/")

\* a value of nav_structure: a path string, or the dict of a group
Leaf(path) == [leaf |-> TRUE, path |-> path, items |-> <<>>]
Group(items) == [leaf |-> FALSE, path |-> <<>>, items |-> items]

\* d[k] = v
DictSet(d, k, v) == (k :> v) @@ d

\* prefix_groups[prefix].append(entry), the prefix entered on first use;
\* the dict keeps its keys in insertion order
GroupAppend(groups, prefix, entry) ==
    IF \E g \in 1..Len(groups) : groups[g].prefix = prefix
    THEN [g \in 1..Len(groups) |->
            IF groups[g].prefix = prefix
            THEN [groups[g] EXCEPT !.files = Append(@, entry)]
            ELSE groups[g]]
    ELSE Append(groups, [prefix |-> prefix, files |-> <<entry>>])

RECURSIVE GroupFiles(_, _, _, _)
\* the first loop: files with a prefix are collected by prefix, the others
\* go directly into nav_structure under their sanitized title
GroupFiles(cf, i, groups, structure) ==
    IF i > Len(cf) THEN [prefix_groups |-> groups, nav_structure |-> structure]
    ELSE IF PrefixOf(cf[i].title) # <<>>
         THEN GroupFiles(cf, i + 1, GroupAppend(groups, PrefixOf(cf[i].title), cf[i]),
                         structure)
         ELSE GroupFiles(cf, i + 1, groups,
                         DictSet(structure, sanitize_title(cf[i].title),
                                 Leaf(PathString(cf[i].path))))

RECURSIVE PrefixNav(_, _, _)
\* the inner loop: leaf label (the part after the prefix) -> path
PrefixNav(entries, j, prefix_nav) ==
    IF j > Len(entries) THEN prefix_nav
    ELSE LET title_parts == SplitTitle(entries[j].title)
             clean_title == sanitize_title(IF Len(title_parts) > 1 THEN title_parts[2]
                                           ELSE entries[j].title)
         IN  PrefixNav(entries, j + 1,
                       DictSet(prefix_nav, clean_title, PathString(entries[j].path)))

RECURSIVE ProcessGroups(_, _, _)
\* the second loop: nav_structure[clean_prefix] = prefix_nav, group by group
ProcessGroups(groups, g, structure) ==
    IF g > Len(groups) THEN structure
    ELSE ProcessGroups(groups, g + 1,
            DictSet(structure, sanitize_title(groups[g].prefix),
                    Group(PrefixNav(groups[g].files, 1, <<>>))))

\* ord(c) for the characters that can occur in a label
Ord(c) ==
    CASE c = " " -> 32 [] c = "(" -> 40 [] c = ")" -> 41 [] c = "," -> 44
      [] c = "-" -> 45 [] c = "." -> 46
      [] c \in Range(DigitChars) -> 47 + IndexOf(DigitChars, c)
      [] c \in Range(UpperChars) -> 64 + IndexOf(UpperChars, c)
      [] c \in Range(LowerChars) -> 96 + IndexOf(LowerChars, c)
      [] OTHER -> 0

RECURSIVE StrLess(_, _)
\* a < b for two strings
StrLess(a, b) ==
    IF b = <<>> THEN FALSE
    ELSE IF a = <<>> THEN TRUE
    ELSE IF Head(a) # Head(b) THEN Ord(Head(a)) < Ord(Head(b))
    ELSE StrLess(Tail(a), Tail(b))

RECURSIVE SortedKeys(_)
\* the keys of a dict in the order sorted(d.items()) visits them
SortedKeys(K) ==
    IF K = {} THEN <<>>
    ELSE LET least == CHOOSE k \in K : \A o \in K \ {k} : StrLess(k, o)
         IN  <<least>> \o SortedKeys(K \ {least})

\* dict_to_nav of a group's dict
SubNav(items) ==
    LET keys == SortedKeys(DOMAIN items)
    IN  [n \in 1..Len(keys) |-> [label |-> keys[n], path |-> items[keys[n]]]]

\* dict_to_nav: entries sorted by label; a group only if it is not empty
dict_to_nav(d) ==
    LET keys == SortedKeys({k \in DOMAIN d : d[k].leaf \/ SubNav(d[k].items) # <<>>})
    IN  [n \in 1..Len(keys) |->
            [label |-> keys[n], leaf |-> d[keys[n]].leaf, path |-> d[keys[n]].path,
             items |-> SubNav(d[keys[n]].items)]]

build_nav_structure(cf) ==
    LET grouped == GroupFiles(cf, 1, <<>>, <<>>)
    IN  dict_to_nav(ProcessGroups(grouped.prefix_groups, 1, grouped.nav_structure))

\* the converted_files dicts of the model: up to m files with distinct
\* paths, each with a title
FileLists(m) ==
    UNION { { [i \in 1..n |-> [path |-> DocPath(order[i]), title |-> titles[i]]] :
                order \in {o \in [1..n -> 1..m] :
                              \A a, b \in 1..n : a # b => o[a] # o[b]},
                titles \in [1..n -> Titles] } : n \in 0..m }

NavInit ==
    /\ converted_files \in FileLists(MaxFiles)
    /\ npc = "input"
    /\ nav = <<>>

\* _build_nav_structure(converted_files)
NavBuild ==
    /\ npc = "input"
    /\ nav' = build_nav_structure(converted_files)
    /\ npc' = "built"
    /\ UNCHANGED converted_files
    /\ UNCHANGED notNav

NavNext == NavBuild

\* navigation synthesis of one collection, nothing else running
InitNav == NavInit /\ ImgIdle /\ RunIdle /\ FmtIdle /\ UtilIdle /\ CfgIdle /\ DocsIdle /\ CliIdle /\ GuiIdle

SpecNav == InitNav /\ [][NavNext]_vars

-----------------------------------------------------------------------------
(* Claims about MkDocsConfig._build_nav_structure *)

\* how many leaves of the navigation list n carry the path string p
LeafCount(n, p) ==
    Cardinality({k \in 1..Len(n) : n[k].leaf /\ n[k].path = p})
      + Cardinality({kj \in (1..Len(n)) \X (1..MaxFiles) :
                        /\ ~n[kj[1]].leaf
                        /\ kj[2] <= Len(n[kj[1]].items)
                        /\ n[kj[1]].items[kj[2]].path = p})

\* C4: navigation synthesis is total: every entry's path appears exactly
\* once among the leaves of the returned tree.
C4_EveryPathExactlyOnce ==
    npc = "built" =>
        \A i \in 1..Len(converted_files) :
            LeafCount(nav, PathString(converted_files[i].path)) = 1

\* the navigation list n has a group labelled g that holds a leaf labelled l
HasGroupLeaf(n, g, l) ==
    \E k \in 1..Len(n) :
        /\ ~n[k].leaf /\ n[k].label = g
        /\ \E j \in 1..Len(n[k].items) : n[k].items[j].label = l

\* the navigation list n has a top-level leaf labelled l
HasTopLeaf(n, l) == \E k \in 1..Len(n) : n[k].leaf /\ n[k].label = l

\* C5: a title with the separator (and some text before it) is placed under
\* the group labelled sanitize_title(text before the first separator) as the
\* leaf sanitize_title(text after it); a title without the separator is a
\* top-level leaf labelled sanitize_title(title).
C5_TitlesPlacedByPrefix ==
    npc = "built" =>
        \A i \in 1..Len(converted_files) :
            LET t == converted_files[i].title
                parts == SplitTitle(t)
            IN  /\ (Len(parts) > 1 /\ parts[1] # <<>>) =>
                      HasGroupLeaf(nav, sanitize_title(parts[1]), sanitize_title(parts[2]))
                /\ Len(parts) = 1 => HasTopLeaf(nav, sanitize_title(t))

\* the same collection inserted in every other order
Reorderings(cf) ==
    { [i \in 1..Len(cf) |-> cf[o[i]]] :
        o \in {q \in [1..Len(cf) -> 1..Len(cf)] :
                  \A a, b \in 1..Len(cf) : a # b => q[a] # q[b]} }

\* C6: the navigation list depends only on the set of (path, title) pairs:
\* every insertion order of the same collection gives the same list.
C6_IndependentOfInsertionOrder ==
    npc = "built" =>
        \A other \in Reorderings(converted_files) : build_nav_structure(other) = nav

-----------------------------------------------------------------------------
(* converter.py: DocumentConverter.convert *)

\* relative output paths (sanitized name + '.md') of the model
OutPaths == {"a.md", "b.md"}

\* a supported file: whether the read probe of get_documents succeeds, and
\* the output path its name sanitizes to
SourceFiles == [accessible : BOOLEAN, out : OutPaths]

\* how a call of convert_document ends: normally, or raising at the access
\* probe (OSError), in the conversion engine (another exception), or at the
\* write of the Markdown file (OSError)
DocOutcomes == {"ok", "probe_error", "engine_error", "write_error"}

\* things under the output directory
DocsDir == <<"dir", "docs">>
ImagesDir(out) == <<"images", out>>
MarkdownFile(out) == <<"md", out>>
ConfigFile == <<"file", "mkdocs.yml">>

\* what a call of convert_document leaves under the output directory
CreatedBy(out, outcome) ==
    CASE outcome = "probe_error" -> {}
      [] outcome = "engine_error" -> {ImagesDir(out)}
      [] outcome = "write_error" -> {ImagesDir(out)}
      [] OTHER -> {ImagesDir(out), MarkdownFile(out)}

\* what the Markdown files hold after a call of convert_document by document
\* d: open(output_path, 'w') replaces the file; when the write raises, the
\* file is as before (open raised) or cut short (f.write raised)
WrittenBy(mc, out, d, outcome) ==
    CASE outcome = "ok" -> {Put(mc, out, [doc |-> d, complete |-> TRUE])}
      [] outcome = "write_error" -> {mc, Put(mc, out, [doc |-> d, complete |-> FALSE])}
      [] OTHER -> {mc}

RecordConvertedKeepFirst(cf, out, title) ==
    IF \E k \in 1..Len(cf) : cf[k].path = out THEN cf
    ELSE Append(cf, [path |-> out, title |-> title])

\* self.converted_files[relative_output] = title
RecordConverted(cf, out, title) ==
    IF \E k \in 1..Len(cf) : cf[k].path = out
    THEN [k \in 1..Len(cf) |-> IF cf[k].path = out THEN [cf[k] EXCEPT !.title = title]
                                ELSE cf[k]]
    ELSE Append(cf, [path |-> out, title |-> title])

ConvertedAfterEarlyRecord(cf, out, title, outcome) ==
    IF outcome = "probe_error" THEN cf ELSE RecordConverted(cf, out, title)

\* self.converted_files after a call of convert_document: the assignment is
\* the last statement before return, so only a call that returns makes it
ConvertedAfter(cf, out, title, outcome) ==
    IF outcome = "ok" THEN RecordConverted(cf, out, title) ELSE cf

\* a loop that a failing document ends
NextDocumentStopsOnFailure(i, n, outcome) == IF outcome = "ok" THEN i + 1 ELSE n + 1

\* the for loop goes on with the next document whatever the outcome was:
\* both except clauses of convert swallow the exception
NextDocument(i, n, outcome) == i + 1

SucceededIgnoringInaccessible(total, nfailed, inaccessible) == total - nfailed

\* succeeded = total - failed - inaccessible
Succeeded(total, nfailed, inaccessible) == total - nfailed - inaccessible

\* total = len(documents); inaccessible = len(inaccessible_files);
\* failed = len(conversion_errors)
Summary(total, inaccessible, nfailed) ==
    [total |-> total, inaccessible |-> inaccessible, failed |-> nfailed,
     succeeded |-> Succeeded(total, nfailed, inaccessible)]

RunInit ==
    /\ input_dir \in UNION {[1..n -> SourceFiles] : n \in 0..MaxDocs}
    /\ documents = <<>>
    /\ rpc = "start"
    /\ di = 0
    /\ created = {}
    /\ run_converted = <<>>
    /\ conversion_errors = <<>>
    /\ inaccessible_files = <<>>
    /\ attempts = <<>>
    /\ config_calls = 0
    /\ error = "none"
    /\ returned = <<>>
    /\ summary = NoSummary
    /\ md_content = <<>>

\* self.docs_dir.mkdir(parents=True, exist_ok=True) raises
RunMkdirFails ==
    /\ rpc = "start"
    /\ rpc' = "raised"
    /\ error' = "OSError"
    /\ UNCHANGED <<input_dir, documents, di, created, run_converted, conversion_errors,
                   inaccessible_files, attempts, config_calls>>
    /\ UNCHANGED <<returned, summary, md_content>>
    /\ UNCHANGED notRun

\* docs_dir is created, get_documents finds nothing: ValueError
RunNoDocuments ==
    /\ rpc = "start"
    /\ input_dir = <<>>
    /\ created' = created \cup {DocsDir}
    /\ documents' = input_dir
    /\ rpc' = "raised"
    /\ error' = "ValueError"
    /\ UNCHANGED <<input_dir, di, run_converted, conversion_errors, inaccessible_files,
                   attempts, config_calls>>
    /\ UNCHANGED <<returned, summary, md_content>>
    /\ UNCHANGED notRun

\* docs_dir is created, get_documents returns the documents, the loop starts
RunDiscover ==
    /\ rpc = "start"
    /\ input_dir # <<>>
    /\ created' = created \cup {DocsDir}
    /\ documents' = input_dir
    /\ rpc' = "loop"
    /\ di' = 1
    /\ UNCHANGED <<input_dir, run_converted, conversion_errors, inaccessible_files,
                   attempts, config_calls, error>>
    /\ UNCHANGED <<returned, summary, md_content>>
    /\ UNCHANGED notRun

SkippedNever(doc) == FALSE

\* the test of `if not is_accessible:` on a (doc, is_accessible) pair
Skipped(doc) == ~doc.accessible

\* if not is_accessible: inaccessible_files.append(doc); continue
RunSkipInaccessible ==
    /\ rpc = "loop" /\ di <= Len(documents)
    /\ Skipped(documents[di])
    /\ inaccessible_files' = Append(inaccessible_files, di)
    /\ di' = di + 1
    /\ UNCHANGED <<input_dir, documents, rpc, created, run_converted, conversion_errors,
                   attempts, config_calls, error>>
    /\ UNCHANGED <<returned, summary, md_content>>
    /\ UNCHANGED notRun

\* try: self.convert_document(doc), with both except clauses
RunConvertDocument ==
    /\ rpc = "loop" /\ di <= Len(documents)
    /\ ~Skipped(documents[di])
    /\ attempts' = Append(attempts, di)
    /\ \E outcome \in DocOutcomes :
          /\ created' = created \cup CreatedBy(documents[di].out, outcome)
          /\ run_converted' = ConvertedAfter(run_converted, documents[di].out, di, outcome)
          /\ inaccessible_files' = IF outcome \in {"probe_error", "write_error"}
                                   THEN Append(inaccessible_files, di)
                                   ELSE inaccessible_files
          /\ conversion_errors' = IF outcome = "engine_error"
                                  THEN Append(conversion_errors, di)
                                  ELSE conversion_errors
          /\ returned' = IF outcome = "ok" THEN Append(returned, di) ELSE returned
          /\ md_content' \in WrittenBy(md_content, documents[di].out, di, outcome)
          /\ di' = NextDocument(di, Len(documents), outcome)
    /\ UNCHANGED <<input_dir, documents, rpc, config_calls, error, summary>>
    /\ UNCHANGED notRun

\* after the loop: self.generate_mkdocs_config(), which writes mkdocs.yml or
\* raises (unreadable custom configuration, failed write); when it returns,
\* the summary is computed and logged
RunGenerateConfig ==
    /\ rpc = "loop" /\ di > Len(documents)
    /\ config_calls' = config_calls + 1
    /\ \/ /\ created' = created \cup {ConfigFile}
          /\ rpc' = "done"
          /\ summary' = Summary(Len(documents), Len(inaccessible_files),
                                Len(conversion_errors))
          /\ UNCHANGED error
       \/ /\ rpc' = "raised"
          /\ error' = "OSError"
          /\ UNCHANGED <<created, summary>>
    /\ UNCHANGED <<input_dir, documents, di, run_converted, conversion_errors,
                   inaccessible_files, attempts, returned, md_content>>
    /\ UNCHANGED notRun

RunNext ==
    \/ RunMkdirFails
    \/ RunNoDocuments
    \/ RunDiscover
    \/ RunSkipInaccessible
    \/ RunConvertDocument
    \/ RunGenerateConfig

\* one conversion run, nothing else running
InitRun == RunInit /\ ImgIdle /\ NavIdle /\ FmtIdle /\ UtilIdle /\ CfgIdle /\ DocsIdle /\ CliIdle /\ GuiIdle

SpecRun == InitRun /\ [][RunNext]_vars

-----------------------------------------------------------------------------
(* Claims about DocumentConverter.convert *)

\* C7: when convert discovers zero supported documents it raises the
\* no-documents error before anything was created under the output directory.
C7_NoOutputBeforeNoDocumentsError ==
    (rpc = "raised" /\ error = "ValueError") => created = {}

\* the indices below i of the accessible documents, in discovery order
AccessibleBefore(i) ==
    SelectSeq([k \in 1..(i - 1) |-> k], LAMBDA k : documents[k].accessible)

\* C8: a failing document never stops the loop: while the loop runs, exactly
\* the accessible documents before the current one have had their attempt, in
\* discovery order, and convert never raises from inside the loop;
\* generate_mkdocs_config is invoked at most once, only after every
\* document's outcome was recorded, and exactly once by the time convert
\* returns, even when every document failed.
C8_LoopRunsThroughConfigOnce ==
    /\ config_calls <= 1
    /\ rpc = "loop" => /\ attempts = AccessibleBefore(di)
                       /\ config_calls = 0
    /\ config_calls = 1 =>
          /\ di = Len(documents) + 1
          /\ attempts = AccessibleBefore(Len(documents) + 1)
          /\ Len(attempts) + Cardinality({k \in 1..Len(documents) :
                                             ~documents[k].accessible})
                = Len(documents)
    /\ rpc = "done" => config_calls = 1
    /\ (rpc = "raised" /\ documents # <<>>) => config_calls = 1

\* every document of a run of at least two failed or was inaccessible, and
\* the configuration was still generated
C8_Witness ==
    /\ rpc = "done" /\ config_calls = 1
    /\ Len(documents) >= 2
    /\ run_converted = <<>>
    /\ conversion_errors # <<>>
    /\ inaccessible_files # <<>>

-----------------------------------------------------------------------------
(* utils.py: sanitize_filename, with slugify as python-slugify computes it *)

\* the subsequence of s at the indices of the set I
AtIndices(s, I) ==
    LET F[i \in 0..Len(s)] ==
            IF i = 0 THEN <<>>
            ELSE IF i \in I THEN Append(F[i - 1], s[i]) ELSE F[i - 1]
    IN  F[Len(s)]

RECURSIVE SplitOn(_, _, _)
\* str.split(sep) for a one-character sep; cur is the piece being read
SplitOn(s, sep, cur) ==
    IF s = <<>> THEN <<cur>>
    ELSE IF Head(s) = sep THEN <<cur>> \o SplitOn(Tail(s), sep, <<>>)
    ELSE SplitOn(Tail(s), sep, Append(cur, Head(s)))

RECURSIVE JoinWith(_, _)
\* sep.join(ps)
JoinWith(ps, sep) ==
    IF ps = <<>> THEN <<>>
    ELSE IF Len(ps) = 1 THEN ps[1]
    ELSE ps[1] \o sep \o JoinWith(Tail(ps), sep)

\* PurePosixPath(s).parts: the root if there is one, then the segments
\* that are neither empty nor "."
PathParts(s) ==
    LET segs == SelectSeq(SplitOn(s, "/", <<>>), LAMBDA g : g # <<>> /\ g # <<".">>)
    IN  IF s # <<>> /\ Head(s) = "/" THEN << <<"/">> >> \o segs ELSE segs

\* the final component of the path, empty for "", "." and the root
FinalPart(s) ==
    LET ps == PathParts(s)
    IN  IF ps = <<>> \/ ps[Len(ps)] = <<"/">> THEN <<>> ELSE ps[Len(ps)]

\* NFKD followed by unidecode, for the non-ASCII characters of the model
Transliterated(c) ==
    CASE c = "TM" -> <<"T", "M">>
      [] c = "ENDASH" -> <<"-">>
      [] c = "EMDASH" -> <<"-", "-">>
      [] OTHER -> <<c>>

RECURSIVE Unidecode(_)
Unidecode(s) == IF s = <<>> THEN <<>> ELSE Transliterated(Head(s)) \o Unidecode(Tail(s))

\* the replacements argument: underscore, slash and backslash to hyphen
SlugReplaced(s) ==
    [i \in 1..Len(s) |-> IF s[i] \in {"_", "/", "\\"} THEN "-" ELSE s[i]]

\* \d, among the characters of the model
DigitSet == Range(DigitChars)

\* regex_pattern [^-a-zA-Z0-9.]+ : the characters that stay
SlugChars == AlnumChars \cup {"-", "."}

\* NUMBERS_PATTERN (?<=\d),(?=\d) replaced by ''
WithoutDigitCommas(s) ==
    AtIndices(s, {i \in 1..Len(s) : ~(/\ s[i] = ","
                                       /\ 1 < i /\ i < Len(s)
                                       /\ s[i - 1] \in DigitSet
                                       /\ s[i + 1] \in DigitSet)})

\* every run of characters outside SlugChars becomes one hyphen, runs of
\* hyphens become one hyphen, hyphens at both ends are stripped
Hyphenated(s) ==
    LET h == [i \in 1..Len(s) |-> IF s[i] \in SlugChars THEN s[i] ELSE "-"]
        c == AtIndices(h, {i \in 1..Len(h) : ~(h[i] = "-" /\ i > 1 /\ h[i - 1] = "-")})
        I == {i \in 1..Len(c) : c[i] # "-"}
    IN  IF I = {} THEN <<>>
        ELSE SubSeq(c, CHOOSE i \in I : \A j \in I : i <= j, MaxOf(I))

\* slugify(text, lowercase=False, separator="-", regex_pattern=..., replacements=...):
\* replacements, quotes to hyphens, transliteration, commas between digits,
\* disallowed characters, duplicate hyphens, replacements again
Slugify(text) ==
    LET replaced == SlugReplaced(text)
        unquoted == [i \in 1..Len(replaced) |->
                        IF replaced[i] = "'" THEN "-" ELSE replaced[i]]
    IN  SlugReplaced(Hyphenated(WithoutDigitCommas(Unidecode(unquoted))))

sanitize_filename(filename) ==
    LET parts == PathParts(filename)
        stem == IF Len(parts) > 1 THEN JoinWith(parts, <<"-">>)
                ELSE PathStem(FinalPart(filename))
    IN  Slugify(stem) \o PathSuffix(FinalPart(filename))

-----------------------------------------------------------------------------
(* document_converter.py: format_markdown, the image references of a text *)

\* The text is seen as its image references ![alt](ref), in order; the
\* text between them holds no reference and no URL of its own.

ImagesPrefix == <<"i", "m", "a", "g", "e", "s", "/">>

\* ref strings of the model: an exact name, the name a slide export writes
\* for the shape "Image 2", an absolute path, a doubled path, an unknown name
RefTexts == { <<"F", "o", "o", ".", "p", "n", "g">>,
              <<"I", "m", "a", "g", "e", "2", ".", "j", "p", "g">>,
              <<"/">> \o ImagesPrefix \o <<"x", ".", "p", "n", "g">>,
              ImagesPrefix \o <<"a", "/">> \o ImagesPrefix \o <<"b", "/", "c", ".", "p", "n", "g">>,
              <<"z", "z", "z", ".", "p", "n", "g">> }

\* alt texts of the model
AltTexts == { <<"a", "l", "t">> }

ImageRefs == [alt : AltTexts, ref : RefTexts]

\* document.stem of the document being converted
DocumentStem == <<"m", "y", "_", "d", "o", "c">>

\* shape.name values behind the maps of the model
MapShapeNames == { <<"F", "o", "o", ".", "p", "n", "g">>, <<"I", "m", "a", "g", "e", " ", "2">> }

RECURSIVE MapOfShapes(_, _)
\* the map extract_pptx_images returns for a presentation whose first k
\* shapes carry the names names[1..k] and pairwise different images
MapOfShapes(names, k) ==
    IF k = 0 THEN <<>>
    ELSE DictUpdate(MapOfShapes(names, k - 1),
                    create_image_mappings(names[k], ImageName(k, png)))

\* f'images/{sanitize_filename(document.stem)}/{new_path}'
NewRef(new_path) == ImagesPrefix \o sanitize_filename(DocumentStem) \o <<"/">> \o new_path

RECURSIVE ExactPass(_, _)
\* first pass: for every map entry in order, re.sub of the references
\* whose ref is exactly the key
ExactPass(c, m) ==
    IF m = <<>> THEN c
    ELSE ExactPass([i \in 1..Len(c) |->
                        IF c[i].ref = Head(m).key
                        THEN [alt |-> c[i].alt, ref |-> NewRef(Head(m).value)]
                        ELSE c[i]],
                   Tail(m))

\* the variations list of one reference
Variations(img_name) ==
    LET base_name == PathStem(img_name)
    IN  <<img_name, PathName(img_name), base_name,
          base_name \o <<".", "j", "p", "g">>, base_name \o <<".", "j", "p", "e", "g">>,
          base_name \o <<".", "p", "n", "g">>, base_name \o <<".", "g", "i", "f">> >>

\* var.lower().replace(' ', '').replace('_', '').replace('.', '')
NormVar(var) == RemoveChars(Lower(var), {" ", "_", "."})

\* Path(name).stem.lower().replace(' ', '').replace('_', '')
NormBase(name) == RemoveChars(Lower(PathStem(name)), {" ", "_"})

\* positions of the map entries whose normalized stem is that of img_name
BaseMatches(m, img_name) == {n \in 1..Len(m) : NormBase(m[n].key) = NormBase(img_name)}

RECURSIVE TryVariations(_, _, _)
\* the loop over variations: per variation the exact test, the normalized
\* test, then the scan of the map for the first entry with the same base name
TryVariations(m, img_name, vs) ==
    IF vs = <<>> THEN [found |-> FALSE, how |-> "none", path |-> <<>>]
    ELSE LET var == Head(vs)
             B == BaseMatches(m, img_name)
         IN  IF var \in Keys(m)
             THEN [found |-> TRUE, how |-> "exact", path |-> Get(m, var)]
             ELSE IF NormVar(var) \in Keys(m)
             THEN [found |-> TRUE, how |-> "normalized", path |-> Get(m, NormVar(var))]
             ELSE IF B # {}
             THEN [found |-> TRUE, how |-> "base",
                   path |-> m[CHOOSE n \in B : \A k \in B : n <= k].value]
             ELSE TryVariations(m, img_name, Tail(vs))

\* content.replace(match.group(0), new): every reference with this text
ReplaceAll(c, old, new) == [i \in 1..Len(c) |-> IF c[i] = old THEN new ELSE c[i]]

\* s[p..] starts with the text t
StartsAt(s, p, t) == p + Len(t) - 1 <= Len(s) /\ SubSeq(s, p, p + Len(t) - 1) = t

\* !\[(.*?)\]\(/images/  ->  ![\1](images/
FixAbsolute(ref) == IF StartsAt(ref, 1, <<"/">> \o ImagesPrefix) THEN Tail(ref) ELSE ref

\* index of the first "/" of s at or after p, 0 when there is none
NextSlash(s, p) ==
    LET I == {i \in p..Len(s) : s[i] = "/"}
    IN  IF I = {} THEN 0 ELSE CHOOSE i \in I : \A j \in I : i <= j

\* the end of a match of images/[^/]+/images/[^/]+/ starting at p, or 0
DuplicateEnd(s, p) ==
    IF ~StartsAt(s, p, ImagesPrefix) THEN 0
    ELSE LET q == NextSlash(s, p + Len(ImagesPrefix))
         IN  IF q <= p + Len(ImagesPrefix) \/ ~StartsAt(s, q + 1, ImagesPrefix) THEN 0
             ELSE LET r == NextSlash(s, q + 1 + Len(ImagesPrefix))
                  IN  IF r <= q + 1 + Len(ImagesPrefix) THEN 0 ELSE r

RECURSIVE RemoveDuplicatePaths(_, _)
\* re.sub(r'images/[^/]+/images/[^/]+/', lambda m: m.group(0).split('/', 1)[1])
\* from position p on: each match loses its leading "images/"
RemoveDuplicatePaths(s, p) ==
    IF p > Len(s) THEN <<>>
    ELSE LET r == DuplicateEnd(s, p)
         IN  IF r = 0 THEN <<s[p]>> \o RemoveDuplicatePaths(s, p + 1)
             ELSE SubSeq(s, p + Len(ImagesPrefix), r) \o RemoveDuplicatePaths(s, r + 1)

\* a text with up to MaxRefs references and a map from up to MaxMapShapes shapes
FmtInit ==
    /\ \E n \in 0..MaxMapShapes : \E names \in [1..n -> MapShapeNames] :
            ref_map = MapOfShapes(names, n)
    /\ \E n \in 1..MaxRefs : content \in [1..n -> ImageRefs]
    /\ original = content
    /\ fpc = "start" /\ matches = <<>> /\ mi = 0 /\ warnings = <<>>

\* `if image_map:` is false: both passes are skipped
FmtNoImageMap ==
    /\ fpc = "start" /\ ref_map = <<>>
    /\ fpc' = "fix"
    /\ UNCHANGED <<original, ref_map, content, matches, mi, warnings>>
    /\ UNCHANGED notFmt

\* the exact pass, then re.finditer over the text it produced
FmtExactPass ==
    /\ fpc = "start" /\ ref_map # <<>>
    /\ content' = ExactPass(content, ref_map)
    /\ matches' = content'
    /\ mi' = 1
    /\ fpc' = "variations"
    /\ UNCHANGED <<original, ref_map, warnings>>
    /\ UNCHANGED notFmt

\* one match of the second pass for which a variation is found
FmtVariationFound ==
    /\ fpc = "variations" /\ mi <= Len(matches)
    /\ LET match == matches[mi]
           hit == TryVariations(ref_map, match.ref, Variations(match.ref))
       IN  /\ hit.found
           /\ content' = ReplaceAll(content, match,
                                    [alt |-> match.alt, ref |-> NewRef(hit.path)])
    /\ mi' = mi + 1
    /\ UNCHANGED <<original, ref_map, fpc, matches, warnings>>
    /\ UNCHANGED notFmt

\* one match of the second pass for which nothing is found: warning only
FmtVariationNotFound ==
    /\ fpc = "variations" /\ mi <= Len(matches)
    /\ ~TryVariations(ref_map, matches[mi].ref, Variations(matches[mi].ref)).found
    /\ warnings' = Append(warnings, matches[mi].ref)
    /\ mi' = mi + 1
    /\ UNCHANGED <<original, ref_map, content, fpc, matches>>
    /\ UNCHANGED notFmt

\* the second pass is over
FmtVariationsEnd ==
    /\ fpc = "variations" /\ mi > Len(matches)
    /\ fpc' = "fix"
    /\ UNCHANGED <<original, ref_map, content, matches, mi, warnings>>
    /\ UNCHANGED notFmt

\* the two fix-ups that always run: absolute paths, duplicate paths
FmtFixPaths ==
    /\ fpc = "fix"
    /\ content' = [i \in 1..Len(content) |->
                      [alt |-> content[i].alt,
                       ref |-> RemoveDuplicatePaths(FixAbsolute(content[i].ref), 1)]]
    /\ fpc' = "done"
    /\ UNCHANGED <<original, ref_map, matches, mi, warnings>>
    /\ UNCHANGED notFmt

FmtNext ==
    \/ FmtNoImageMap
    \/ FmtExactPass
    \/ FmtVariationFound
    \/ FmtVariationNotFound
    \/ FmtVariationsEnd
    \/ FmtFixPaths

\* one call of format_markdown, nothing else running
InitFmt == FmtInit /\ ImgIdle /\ NavIdle /\ RunIdle /\ UtilIdle /\ CfgIdle /\ DocsIdle /\ CliIdle /\ GuiIdle

SpecFmt == InitFmt /\ [][FmtNext]_vars

-----------------------------------------------------------------------------
(* Claims about format_markdown *)

\* C9: every image reference of the input whose ref is a key of the image
\* map comes out as ![alt](images/<sanitize_filename(document.stem)>/<map[ref]>),
\* in the same place and with the same alt text.
C9_ExactKeyRewritten ==
    fpc = "done" =>
        \A i \in 1..Len(original) :
            original[i].ref \in Keys(ref_map) =>
                content[i] = [alt |-> original[i].alt,
                              ref |-> ImagesPrefix \o sanitize_filename(DocumentStem)
                                        \o <<"/">> \o Get(ref_map, original[i].ref)]

\* none of the strategies finds a map entry for this ref
NoStrategyMatches(ref, m) == ~TryVariations(m, ref, Variations(ref)).found

\* C10: an image reference for which no strategy finds a map entry comes out
\* unchanged and is reported as unresolved, whatever the ref and the map.
C10_UnmatchedLeftUntouched ==
    fpc = "done" =>
        \A i \in 1..Len(original) :
            NoStrategyMatches(original[i].ref, ref_map) =>
                /\ content[i] = original[i]
                /\ \E w \in 1..Len(warnings) : warnings[w] = original[i].ref

\* C30: a reference that the exact pass rewrote, its ref being a key of the
\* map, is left as the exact pass wrote it by the pass over the variations,
\* whatever the map holds.
C30_ExactResultKeptBySecondPass ==
    fpc \in {"variations", "fix"} =>
        \A i \in 1..Len(original) :
            original[i].ref \in Keys(ref_map) => content[i] = matches[i]

\* the map entry the first matching strategy names for a ref taken as it
\* stands in the input: the exact key, else the key equal to the ref's
\* normalized form
DecidedByFirstStrategy(ref, m) ==
    IF ref \in Keys(m) THEN Get(m, ref) ELSE Get(m, NormVar(ref))

\* C19: the strategies apply per reference in the order exact, normalized,
\* base name, and the first that matches decides: a reference that is a key
\* of the map comes out pointing at that key's image, and one that is no
\* key but whose normalized form is a key comes out pointing at that one,
\* whatever a later strategy would match.
C19_FirstStrategyDecides ==
    fpc = "done" =>
        \A i \in 1..Len(original) :
            (original[i].ref \in Keys(ref_map) \/ NormVar(original[i].ref) \in Keys(ref_map))
                => content[i].ref = NewRef(DecidedByFirstStrategy(original[i].ref, ref_map))

-----------------------------------------------------------------------------
(* utils.py: calls of sanitize_filename and sanitize_title on arbitrary text *)

\* characters of file names: a letter, dot, hyphen, space, underscore, both
\* slashes and the null byte
NameChars == {"a", ".", "-", " ", "_", "/", "\\", "NUL"}

\* characters of titles: a letter, two kinds of whitespace, the trademark
\* sign, the en dash, a bracket, an exclamation mark and a dot
TitleChars == {"a", " ", "\t", "TM", "ENDASH", "[", "!", "."}

\* every text of at most n characters of the set A
TextsUpTo(A, n) == UNION {[1..k -> A] : k \in 0..n}

UtilInit ==
    /\ \/ ufn = "sanitize_filename" /\ uarg \in TextsUpTo(NameChars, MaxNameLen)
       \/ ufn = "sanitize_title" /\ uarg \in TextsUpTo(TitleChars, MaxTitleLen)
    /\ upc = "call" /\ ures = <<>> /\ ures2 = <<>>

\* sanitize_filename(x)
CallSanitizeFilename ==
    /\ upc = "call" /\ ufn = "sanitize_filename"
    /\ ures' = sanitize_filename(uarg)
    /\ upc' = "returned"
    /\ UNCHANGED <<ufn, uarg, ures2>>
    /\ UNCHANGED notUtil

\* sanitize_filename(sanitize_filename(x))
CallSanitizeFilenameAgain ==
    /\ upc = "returned" /\ ufn = "sanitize_filename"
    /\ ures2' = sanitize_filename(ures)
    /\ upc' = "again"
    /\ UNCHANGED <<ufn, uarg, ures>>
    /\ UNCHANGED notUtil

\* sanitize_title(title)
CallSanitizeTitle ==
    /\ upc = "call" /\ ufn = "sanitize_title"
    /\ ures' = sanitize_title(uarg)
    /\ upc' = "returned"
    /\ UNCHANGED <<ufn, uarg, ures2>>
    /\ UNCHANGED notUtil

UtilNext ==
    \/ CallSanitizeFilename
    \/ CallSanitizeFilenameAgain
    \/ CallSanitizeTitle

\* one call of a utility function, nothing else running
InitUtil == UtilInit /\ ImgIdle /\ NavIdle /\ RunIdle /\ FmtIdle /\ CfgIdle /\ DocsIdle /\ CliIdle /\ GuiIdle

SpecUtil == InitUtil /\ [][UtilNext]_vars

-----------------------------------------------------------------------------
(* Claims about sanitize_filename and sanitize_title *)

\* C11: sanitize_filename is idempotent: applied to its own result it
\* returns that result, for every input.
C11_SanitizeFilenameIdempotent ==
    (ufn = "sanitize_filename" /\ upc = "again") => ures2 = ures

\* C12: the result of sanitize_filename holds no forward slash, no backslash
\* and no null byte, the re-appended extension included.
C12_NoSeparatorOrNullInResult ==
    (ufn = "sanitize_filename" /\ upc \in {"returned", "again"}) =>
        \A i \in 1..Len(ures) : ures[i] \notin {"/", "\\", "NUL"}

\* the substitution table as the claim states it
TitleSubstitute(c) ==
    CASE c \in {"ENDASH", "EMDASH"} -> <<"-">>
      [] c \in {"TM", "REG", "COPY"} -> <<>>
      [] c = "[" -> <<"(">>
      [] c = "]" -> <<")">>
      [] OTHER -> <<c>>

\* alphanumeric, whitespace or one of ()-.,
TitleAllowed(c) ==
    \/ c \in Range(UpperChars) \cup Range(LowerChars) \cup Range(DigitChars)
    \/ c \in {" ", "\t", "\n"}
    \/ c \in {"(", ")", "-", ".", ","}

\* substitution, then the filter, then every whitespace run between two
\* other characters as one space and no whitespace at the ends
TitleExpected(raw) ==
    LET sub[i \in 0..Len(raw)] ==
            IF i = 0 THEN <<>> ELSE sub[i - 1] \o TitleSubstitute(raw[i])
        kept == SelectSeq(sub[Len(raw)], TitleAllowed)
        sp == [i \in 1..Len(kept) |-> IF kept[i] \in {" ", "\t", "\n"} THEN " " ELSE kept[i]]
        idx == {i \in 1..Len(sp) :
                   \/ sp[i] # " "
                   \/ /\ i > 1 /\ sp[i - 1] # " "
                      /\ \E j \in (i + 1)..Len(sp) : sp[j] # " "}
    IN  AtIndices(sp, idx)

-----------------------------------------------------------------------------
(* mkdocs_config.py: MkDocsConfig.generate *)

\* A YAML document is a record: kind "mapping" with its entries as a dict,
\* kind "null" for a document that is no mapping (an empty file loads as
\* None), kind "none" where there is no document.
NoDocument == [kind |-> "none", data |-> <<>>]

\* a value that is not a navigation list
Scalar(v) == [scalar |-> v]

\* the value stored under 'nav'
NavValue(n) == [nav |-> n]

\* _generate_default_config: the keys of the default configuration
DefaultConfig ==
    [kind |-> "mapping",
     data |-> << [key |-> "site_name", value |-> Scalar("Documentation")],
                 [key |-> "theme", value |-> Scalar("material")],
                 [key |-> "docs_dir", value |-> Scalar("docs")],
                 [key |-> "use_directory_urls", value |-> Scalar("False")],
                 [key |-> "markdown_extensions", value |-> Scalar("extensions")] >>]

\* keys a user's configuration file may hold, in the order of the file
UserKeys == <<"site_name", "theme", "nav">>

\* the user's value of a key
UserValue(k) == Scalar("user " \o k)

\* the mappings a user's file may hold: any selection of UserKeys
UserMappings ==
    { [kind |-> "mapping",
       data |-> [n \in 1..Len(AtIndices(UserKeys, I)) |->
                    [key |-> AtIndices(UserKeys, I)[n],
                     value |-> UserValue(AtIndices(UserKeys, I)[n])]]] :
        I \in SUBSET (1..Len(UserKeys)) }

\* no file given, a file that cannot be opened or parsed, a file that holds
\* no mapping, or a mapping
CustomConfigs ==
    {NoDocument, [kind |-> "unreadable", data |-> <<>>], [kind |-> "null", data |-> <<>>]}
        \cup UserMappings

\* converted_files given to generate: up to MaxCfgFiles files, each with a title
CfgFileLists ==
    UNION { { [i \in 1..n |-> [path |-> DocPath(i), title |-> titles[i]]] :
                titles \in [1..n -> Titles] } : n \in 0..MaxCfgFiles }

\* the custom configuration merged over the default one
LoadedOverDefault(custom) ==
    IF custom.kind = "mapping"
    THEN [kind |-> "mapping", data |-> DictUpdate(DefaultConfig.data, custom.data)]
    ELSE DefaultConfig

\* self.config_data after "load or generate config": what yaml.safe_load
\* returned, the default configuration when loading raised or no file was given
LoadedConfig(custom) ==
    IF custom.kind \in {"mapping", "null"} THEN custom ELSE DefaultConfig

CfgInit ==
    /\ custom_config \in CustomConfigs
    /\ converted_files \in CfgFileLists
    /\ nav = <<>> /\ npc = "idle"
    /\ config_data = NoDocument /\ written_config = NoDocument
    /\ gpc = "start"

\* self.output_dir.mkdir raises
CfgMkdirFails ==
    /\ gpc = "start"
    /\ gpc' = "raised"
    /\ UNCHANGED <<custom_config, config_data, written_config, converted_files, nav>>
    /\ UNCHANGED notCfg

\* a custom configuration is given and yaml.safe_load returns
CfgLoadCustom ==
    /\ gpc = "start" /\ custom_config.kind \in {"mapping", "null"}
    /\ config_data' = LoadedConfig(custom_config)
    /\ gpc' = "loaded"
    /\ UNCHANGED <<custom_config, written_config, converted_files, nav>>
    /\ UNCHANGED notCfg

\* a custom configuration is given and loading it raises: warning, default
CfgLoadFails ==
    /\ gpc = "start" /\ custom_config.kind = "unreadable"
    /\ config_data' = LoadedConfig(custom_config)
    /\ gpc' = "loaded"
    /\ UNCHANGED <<custom_config, written_config, converted_files, nav>>
    /\ UNCHANGED notCfg

\* no custom configuration: _generate_default_config
CfgGenerateDefault ==
    /\ gpc = "start" /\ custom_config.kind = "none"
    /\ config_data' = LoadedConfig(custom_config)
    /\ gpc' = "loaded"
    /\ UNCHANGED <<custom_config, written_config, converted_files, nav>>
    /\ UNCHANGED notCfg

\* converted_files is not empty: config_data['nav'] = _build_nav_structure(...)
CfgAddNav ==
    /\ gpc = "loaded" /\ converted_files # <<>> /\ config_data.kind = "mapping"
    /\ nav' = build_nav_structure(converted_files)
    /\ config_data' = [kind |-> "mapping",
                       data |-> Put(config_data.data, "nav", NavValue(nav'))]
    /\ gpc' = "ready"
    /\ UNCHANGED <<custom_config, written_config, converted_files>>
    /\ UNCHANGED notCfg

\* the same assignment on a config_data that is no mapping raises TypeError
CfgAddNavRaises ==
    /\ gpc = "loaded" /\ converted_files # <<>> /\ config_data.kind # "mapping"
    /\ nav' = build_nav_structure(converted_files)
    /\ gpc' = "raised"
    /\ UNCHANGED <<custom_config, config_data, written_config, converted_files>>
    /\ UNCHANGED notCfg

\* converted_files is empty: nothing is added
CfgNoNav ==
    /\ gpc = "loaded" /\ converted_files = <<>>
    /\ gpc' = "ready"
    /\ UNCHANGED <<custom_config, config_data, written_config, converted_files, nav>>
    /\ UNCHANGED notCfg

\* yaml.dump of config_data into mkdocs.yml
CfgWrite ==
    /\ gpc = "ready"
    /\ written_config' = config_data
    /\ gpc' = "written"
    /\ UNCHANGED <<custom_config, config_data, converted_files, nav>>
    /\ UNCHANGED notCfg

\* opening or writing mkdocs.yml raises: logged and raised again
CfgWriteFails ==
    /\ gpc = "ready"
    /\ gpc' = "raised"
    /\ UNCHANGED <<custom_config, config_data, written_config, converted_files, nav>>
    /\ UNCHANGED notCfg

CfgNext ==
    \/ CfgMkdirFails
    \/ CfgLoadCustom
    \/ CfgLoadFails
    \/ CfgGenerateDefault
    \/ CfgAddNav
    \/ CfgAddNavRaises
    \/ CfgNoNav
    \/ CfgWrite
    \/ CfgWriteFails

\* one call of generate, nothing else running
InitCfg == CfgInit /\ ImgIdle /\ RunIdle /\ FmtIdle /\ UtilIdle /\ DocsIdle /\ CliIdle /\ GuiIdle

SpecCfg == InitCfg /\ [][CfgNext]_vars

-----------------------------------------------------------------------------
(* Claims about MkDocsConfig.generate *)

\* C14: seeded from a user's configuration mapping, with at least one
\* converted file, the written configuration is the user's mapping with the
\* nav key set to the synthesized navigation: every other user key keeps its
\* value and no other key is added.
C14_UserConfigPassedThrough ==
    (gpc = "written" /\ custom_config.kind = "mapping" /\ converted_files # <<>>) =>
        /\ written_config.kind = "mapping"
        /\ Keys(written_config.data) = Keys(custom_config.data) \cup {"nav"}
        /\ \A k \in Keys(custom_config.data) \ {"nav"} :
               Get(written_config.data, k) = Get(custom_config.data, k)
        /\ Get(written_config.data, "nav") = NavValue(build_nav_structure(converted_files))

\* a configuration seeded from a user's file with a site name, a theme and a
\* nav of its own was written for two converted files
C14_Witness ==
    /\ gpc = "written"
    /\ custom_config.kind = "mapping"
    /\ Keys(custom_config.data) = {"site_name", "theme", "nav"}
    /\ Len(converted_files) = 2
    /\ Get(written_config.data, "nav") # UserValue("nav")

\* C15: every configuration written is a mapping whose nav key holds the
\* navigation synthesized from the converted files, also when no document
\* was converted.
C15_WrittenConfigHasNav ==
    gpc = "written" =>
        /\ written_config.kind = "mapping"
        /\ "nav" \in Keys(written_config.data)
        /\ Get(written_config.data, "nav") = NavValue(build_nav_structure(converted_files))

-----------------------------------------------------------------------------
(* document_converter.py: DocumentConverter.get_documents *)

\* utils.SUPPORTED_FORMATS
SUPPORTED_FORMATS ==
    {
      <<".", "p", "d", "f">>, <<".", "d", "o", "c">>, <<".", "d", "o", "c", "x">>,
      <<".", "r", "t", "f">>, <<".", "o", "d", "t">>, <<".", "t", "x", "t">>,
      <<".", "p", "p", "t">>, <<".", "p", "p", "t", "x">>, <<".", "x", "l", "s">>,
      <<".", "x", "l", "s", "x">>, <<".", "c", "s", "v">>, <<".", "j", "p", "g">>,
      <<".", "j", "p", "e", "g">>, <<".", "p", "n", "g">>, <<".", "g", "i", "f">>,
      <<".", "b", "m", "p">>, <<".", "w", "e", "b", "p">>, <<".", "m", "p", "3">>,
      <<".", "w", "a", "v">>, <<".", "m", "4", "a">>, <<".", "o", "g", "g">>,
      <<".", "f", "l", "a", "c">>, <<".", "h", "t", "m", "l">>, <<".", "h", "t", "m">>,
      <<".", "j", "s", "o", "n">>, <<".", "x", "m", "l">>, <<".", "z", "i", "p">> }

\* paths below the input directory, relative to it: supported extensions in
\* lower and upper case and after another dot, an unsupported extension, no
\* extension, a hidden file named like an extension
EntryNames ==
    { <<"a", ".", "p", "d", "f">>,
      <<"s", "/", "b", ".", "P", "D", "F">>,
      <<"s", "/", "t", "/", "c", ".", "t", "a", "r", ".", "z", "i", "p">>,
      <<"d", ".", "e", "x", "e">>,
      <<"s", "/", "r">>,
      <<".", "p", "d", "f">> }

\* what rglob yields: a path, whether it is a regular file (or a directory),
\* and whether open() and read(1) succeed on it
Entries == [name : EntryNames, is_file : BOOLEAN, readable : BOOLEAN]

\* is_supported_format with a comparison that keeps the case of the suffix
is_supported_format_as_written(name) == PathSuffix(name) \in SUPPORTED_FORMATS

\* file_path.suffix.lower() in SUPPORTED_FORMATS
is_supported_format(name) == Lower(PathSuffix(name)) \in SUPPORTED_FORMATS

\* up to n entries with pairwise different paths, in any order
TreesUpTo(n) ==
    UNION { {t \in [1..k -> Entries] :
                \A a, b \in 1..k : a # b => t[a].name # t[b].name} : k \in 0..n }

DocsInit ==
    /\ tree \in TreesUpTo(MaxEntries)
    /\ found = <<>> /\ tk = 1 /\ dpc = "walk"

\* an entry that is no file or has no supported suffix
DocsSkipEntry ==
    /\ dpc = "walk" /\ tk <= Len(tree)
    /\ ~(tree[tk].is_file /\ is_supported_format(tree[tk].name))
    /\ tk' = tk + 1
    /\ UNCHANGED <<tree, found, dpc>>
    /\ UNCHANGED notDocs

\* a supported file that can be opened and read
DocsAppendAccessible ==
    /\ dpc = "walk" /\ tk <= Len(tree)
    /\ tree[tk].is_file /\ is_supported_format(tree[tk].name)
    /\ tree[tk].readable
    /\ found' = Append(found, [path |-> tree[tk].name, accessible |-> TRUE])
    /\ tk' = tk + 1
    /\ UNCHANGED <<tree, dpc>>
    /\ UNCHANGED notDocs

\* a supported file on which open() or read(1) raises PermissionError or OSError
DocsAppendInaccessible ==
    /\ dpc = "walk" /\ tk <= Len(tree)
    /\ tree[tk].is_file /\ is_supported_format(tree[tk].name)
    /\ ~tree[tk].readable
    /\ found' = Append(found, [path |-> tree[tk].name, accessible |-> FALSE])
    /\ tk' = tk + 1
    /\ UNCHANGED <<tree, dpc>>
    /\ UNCHANGED notDocs

\* the walk is over: return documents
DocsReturn ==
    /\ dpc = "walk" /\ tk > Len(tree)
    /\ dpc' = "returned"
    /\ UNCHANGED <<tree, found, tk>>
    /\ UNCHANGED notDocs

DocsNext ==
    \/ DocsSkipEntry
    \/ DocsAppendAccessible
    \/ DocsAppendInaccessible
    \/ DocsReturn

\* one call of get_documents, nothing else running
InitDocs == DocsInit /\ ImgIdle /\ NavIdle /\ RunIdle /\ FmtIdle /\ UtilIdle /\ CfgIdle /\ CliIdle /\ GuiIdle

SpecDocs == InitDocs /\ [][DocsNext]_vars

-----------------------------------------------------------------------------
(* Claims about get_documents *)

\* the extension of a path, lower-cased: the text from the last dot of its
\* final component on, unless that dot starts or ends the component
ExtensionLower(name) ==
    LET final == SubSeq(name, RFind(name, "/") + 1, Len(name))
        dot == RFind(final, ".")
        ext == IF dot <= 1 \/ dot = Len(final) THEN <<>> ELSE SubSeq(final, dot, Len(final))
    IN  [i \in 1..Len(ext) |-> IF ext[i] \in DOMAIN LowerMap THEN LowerMap[ext[i]] ELSE ext[i]]

\* the entries of the tree that are candidates: regular files with a
\* supported extension
Candidates == {k \in 1..Len(tree) : tree[k].is_file /\ ExtensionLower(tree[k].name) \in SUPPORTED_FORMATS}

\* C16: get_documents returns exactly one (path, accessible) pair for each
\* regular file under the input directory whose extension, case ignored, is
\* supported, and no other pair; accessible tells whether the file could be
\* opened and read.
C16_ExactlyTheSupportedFiles ==
    dpc = "returned" =>
        /\ \A k \in Candidates :
               /\ Cardinality({i \in 1..Len(found) : found[i].path = tree[k].name}) = 1
               /\ \A i \in 1..Len(found) :
                      found[i].path = tree[k].name => found[i].accessible = tree[k].readable
        /\ \A i \in 1..Len(found) : \E k \in Candidates : found[i].path = tree[k].name

\* an upper-case supported file that cannot be read, a nested supported file
\* and an unsupported file were walked
C16_Witness ==
    /\ dpc = "returned"
    /\ Len(tree) = 3 /\ Len(found) = 2
    /\ \E i \in 1..Len(found) :
           found[i] = [path |-> <<"s", "/", "b", ".", "P", "D", "F">>, accessible |-> FALSE]
    /\ \E k \in 1..Len(tree) : tree[k].name = <<"d", ".", "e", "x", "e">> /\ tree[k].is_file

\* the documents of the run, by index, and the indices a list of the run holds
Counted(list) == {list[k] : k \in 1..Len(list)}

\* C18: when convert ends, every discovered document is in exactly one of
\* the summary's categories: succeeded + failed + inaccessible = total, and
\* succeeded is the number of convert_document calls that returned normally.
C18_SummaryPartitionsDocuments ==
    rpc = "done" =>
        /\ summary.total = Len(documents)
        /\ summary.succeeded + summary.failed + summary.inaccessible = summary.total
        /\ summary.succeeded = Len(returned)
        /\ summary.failed = Cardinality(Counted(conversion_errors))
        /\ summary.inaccessible = Cardinality(Counted(inaccessible_files))
        /\ \A d \in 1..Len(documents) :
              Cardinality({c \in {"s", "f", "i"} :
                              \/ c = "s" /\ d \in Counted(returned)
                              \/ c = "f" /\ d \in Counted(conversion_errors)
                              \/ c = "i" /\ d \in Counted(inaccessible_files)}) = 1

\* C18 witness: a run that ended with one document in each category.
C18_Witness ==
    /\ rpc = "done"
    /\ summary.succeeded = 1 /\ summary.failed = 1 /\ summary.inaccessible = 1
    /\ Len(returned) = 1

\* C23: a document for which convert_document was called (Converting) ends
\* Converted or Failed: when the call raised, whatever the exception, the
\* document is among the failed documents, and it is never moved back to
\* the inaccessible ones.
C23_ConvertingEndsConvertedOrFailed ==
    \A k \in 1..Len(attempts) :
        attempts[k] < di =>
            /\ attempts[k] \in Counted(returned) \cup Counted(conversion_errors)
            /\ attempts[k] \notin Counted(inaccessible_files)

\* C24: a document that discovery marked inaccessible is never passed to
\* convert_document, so no call writes a file, makes an image folder or
\* records a converted_files entry for it, and once the loop has passed it
\* the document is in the inaccessible list that the report prints.
C24_InaccessibleNeverConverted ==
    \A d \in 1..Len(documents) :
        ~documents[d].accessible =>
            /\ d \notin Counted(attempts)
            /\ d \notin Counted(returned)
            /\ \A k \in 1..Len(run_converted) : run_converted[k].title # d
            /\ d < di => Cardinality({k \in 1..Len(inaccessible_files) :
                                          inaccessible_files[k] = d}) = 1
            /\ rpc = "done" => summary.inaccessible >= 1

\* C24 witness: a run ended in which one document was marked inaccessible
\* and reported, while another one was converted.
C24_Witness ==
    /\ rpc = "done" /\ Len(documents) >= 2
    /\ ~documents[1].accessible /\ inaccessible_files = <<1>>
    /\ returned # <<>>

\* the documents whose convert_document call returned and wrote to out
ReturnedTo(out) == {d \in Counted(returned) : documents[d].out = out}

C27_ConvertedIffReturned ==
    /\ {run_converted[k].path : k \in 1..Len(run_converted)}
          = {documents[d].out : d \in Counted(returned)}
    /\ \A k \in 1..Len(run_converted) :
          /\ run_converted[k].title \in Counted(returned)
          /\ documents[run_converted[k].title].out = run_converted[k].path
    /\ \A a \in Counted(attempts) \ Counted(returned) :
          \A k \in 1..Len(run_converted) : run_converted[k].title # a

\* C27 witness: of three calls one raised in the engine, one raised at the
\* write and one returned; converted_files has the one entry.
C27_Witness ==
    /\ Len(attempts) = 3 /\ di = 4
    /\ Len(returned) = 1 /\ Len(run_converted) = 1
    /\ conversion_errors # <<>> /\ inaccessible_files # <<>>

(***************************************************************************)
(* The convert command (__main__.py, cli.py)                               *)
(*                                                                         *)
(* Two command functions named convert exist.  __main__.convert builds a   *)
(* converter.DocumentConverter and calls convert() inside try/except.      *)
(* cli.convert calls docs_to_site.convert, which builds a Converter and    *)
(* calls convert() with no handler: an exception leaves click and ends the *)
(* interpreter with status 1.  docs_to_site/__init__.py imports the name   *)
(* Converter from converter.py, which defines DocumentConverter only, so   *)
(* the import of the package can fail before any command runs; where it    *)
(* does not, Converter is taken to be converter.DocumentConverter, the one *)
(* class of the package with the three-argument constructor both commands  *)
(* use.                                                                    *)
(***************************************************************************)
Commands == {"__main__.convert", "cli.convert"}

\* exit_code while the process is running
NotExited == 0 - 1

ExitCodeIgnoringErrors(raised) == 0

\* __main__.convert: the function returns (status 0), or except Exception:
\* logging.error(str(e)); sys.exit(1)
ExitCode(raised) == IF raised THEN 1 ELSE 0

CliInit == command \in Commands /\ exit_code = NotExited

\* from .converter import Converter raises ImportError while the package is
\* imported: the process ends with a traceback before convert() is called
PackageImportFails ==
    /\ command \in Commands /\ exit_code = NotExited
    /\ rpc = "start"
    /\ exit_code' = 1
    /\ UNCHANGED <<command, runVars, imgVars, navVars, fmtVars, utilVars, cfgVars, docsVars,
                   guiVars>>

\* the steps of DocumentConverter.convert, while the command is running
CliRunStep == exit_code = NotExited /\ RunNext

\* __main__.convert after converter.convert() returned or raised
MainConvertExit ==
    /\ command = "__main__.convert" /\ exit_code = NotExited
    /\ rpc \in {"done", "raised"}
    /\ exit_code' = ExitCode(rpc = "raised")
    /\ UNCHANGED <<command, runVars, imgVars, navVars, fmtVars, utilVars, cfgVars, docsVars,
                   guiVars>>

\* cli.convert after convert_docs(...) returned, or raised through click
CliConvertExit ==
    /\ command = "cli.convert" /\ exit_code = NotExited
    /\ rpc \in {"done", "raised"}
    /\ exit_code' = IF rpc = "done" THEN 0 ELSE 1
    /\ UNCHANGED <<command, runVars, imgVars, navVars, fmtVars, utilVars, cfgVars, docsVars,
                   guiVars>>

CliNext ==
    \/ PackageImportFails
    \/ CliRunStep
    \/ MainConvertExit
    \/ CliConvertExit

\* one invocation of the convert command
InitCli ==
    RunInit /\ CliInit /\ ImgIdle /\ NavIdle /\ FmtIdle /\ UtilIdle /\ CfgIdle /\ DocsIdle /\ GuiIdle

SpecCli == InitCli /\ [][CliNext]_vars

\* C17: once the convert command has exited, its status is 0 whenever at
\* least one document was discovered and mkdocs.yml was written, however
\* many documents failed, and it is non-zero when no document was discovered
\* or a set-up or configuration-write error was raised.
C17_ExitCodeFollowsOutcome ==
    exit_code # NotExited =>
        /\ (documents # <<>> /\ ConfigFile \in created) => exit_code = 0
        /\ (documents = <<>> \/ error # "none") => exit_code # 0

\* C17 witness: two documents were discovered, none was converted, the
\* configuration was written and __main__.convert exited with status 0.
C17_Witness ==
    /\ command = "__main__.convert" /\ exit_code = 0
    /\ Len(documents) >= 2 /\ run_converted = <<>>
    /\ ConfigFile \in created

(***************************************************************************)
(* The GUI worker and the cancel callback (ui.py)                          *)
(*                                                                         *)
(* _start_conversion sets is_converting and starts a thread that runs      *)
(* _convert_documents; the Cancel button, enabled from then until the      *)
(* worker's finally clause, clears the flag from the main thread.  Every   *)
(* read of the flag by the worker and every call the worker makes is a     *)
(* step of its own, and the callback may run between any two of them.      *)
(* ui.py names a class Converter that converter.py does not define; its    *)
(* document_converter.convert_document and mkdocs.generate are taken to    *)
(* end as those of document_converter.py and mkdocs_config.py do.          *)
(***************************************************************************)
notGui == <<imgVars, navVars, runVars, fmtVars, utilVars, cfgVars, docsVars, cliVars>>

CancelledNever(flag) == FALSE

\* the test of `if not self.is_converting:` at the top of the loop body
Cancelled(flag) == ~flag

\* the test of `if self.is_converting:` after the loop
NotCancelled(flag) == flag

\* the window is open, folders are chosen, no conversion is running
GuiInit ==
    /\ is_converting = FALSE /\ wpc = "ready"
    /\ gui_documents \in UNION {[1..n -> SourceFiles] : n \in 0..MaxDocs}
    /\ current = 0 /\ succeeded = 0
    /\ gui_inaccessible = <<>> /\ gui_errors = <<>>
    /\ started = <<>> /\ completed = <<>> /\ observed = FALSE /\ generated = 0

\* _start_conversion: _set_converting_state(True), then the thread starts
GuiStartConversion ==
    /\ wpc = "ready"
    /\ is_converting' = TRUE
    /\ wpc' = "init"
    /\ UNCHANGED <<gui_documents, current, succeeded, gui_inaccessible, gui_errors,
                   started, completed, observed, generated>>
    /\ UNCHANGED notGui

\* _cancel_conversion, while the Cancel button is enabled
GuiCancel ==
    /\ wpc \notin {"none", "ready", "ended"}
    /\ is_converting' = FALSE
    /\ UNCHANGED <<wpc, gui_documents, current, succeeded, gui_inaccessible, gui_errors,
                   started, completed, observed, generated>>
    /\ UNCHANGED notGui

\* Converter(...) and get_documents(); no document: ValueError, caught by
\* the except clause of the worker
WorkerGetDocuments ==
    /\ wpc = "init"
    /\ wpc' = IF gui_documents = <<>> THEN "finally" ELSE "top"
    /\ UNCHANGED <<is_converting, gui_documents, current, succeeded, gui_inaccessible,
                   gui_errors, started, completed, observed, generated>>
    /\ UNCHANGED notGui

\* the for loop has no further document
WorkerLoopEnd ==
    /\ wpc = "top" /\ current = Len(gui_documents)
    /\ wpc' = "after"
    /\ UNCHANGED <<is_converting, gui_documents, current, succeeded, gui_inaccessible,
                   gui_errors, started, completed, observed, generated>>
    /\ UNCHANGED notGui

\* the next document: the flag is read; break when it is cleared, else
\* current += 1 and, for an inaccessible document, append and continue
WorkerNextDocument ==
    /\ wpc = "top" /\ current < Len(gui_documents)
    /\ observed' = (observed \/ ~is_converting)
    /\ IF Cancelled(is_converting)
       THEN /\ wpc' = "after"
            /\ UNCHANGED <<current, gui_inaccessible, started>>
       ELSE /\ current' = current + 1
            /\ IF Skipped(gui_documents[current'])
               THEN /\ gui_inaccessible' = Append(gui_inaccessible, current')
                    /\ wpc' = "top"
                    /\ UNCHANGED started
               ELSE /\ started' = Append(started, [doc |-> current', flag |-> is_converting])
                    /\ wpc' = "converting"
                    /\ UNCHANGED gui_inaccessible
    /\ UNCHANGED <<is_converting, gui_documents, succeeded, gui_errors, completed, generated>>
    /\ UNCHANGED notGui

\* convert_document(doc) ends, normally or raising, and the except clauses
WorkerConvertEnds ==
    /\ wpc = "converting"
    /\ completed' = Append(completed, current)
    /\ \E outcome \in DocOutcomes :
          /\ succeeded' = IF outcome = "ok" THEN succeeded + 1 ELSE succeeded
          /\ gui_inaccessible' = IF outcome \in {"probe_error", "write_error"}
                                 THEN Append(gui_inaccessible, current)
                                 ELSE gui_inaccessible
          /\ gui_errors' = IF outcome = "engine_error"
                           THEN Append(gui_errors, current) ELSE gui_errors
    /\ wpc' = "top"
    /\ UNCHANGED <<is_converting, gui_documents, current, started, observed, generated>>
    /\ UNCHANGED notGui

\* after the loop the flag is read again: generate the configuration only
\* if it is still set
WorkerAfterLoop ==
    /\ wpc = "after"
    /\ observed' = (observed \/ ~is_converting)
    /\ wpc' = IF NotCancelled(is_converting) THEN "generate" ELSE "finally"
    /\ UNCHANGED <<is_converting, gui_documents, current, succeeded, gui_inaccessible,
                   gui_errors, started, completed, generated>>
    /\ UNCHANGED notGui

\* self.converter.mkdocs.generate(...), which returns or raises
WorkerGenerate ==
    /\ wpc = "generate"
    /\ generated' = generated + 1
    /\ wpc' = "finally"
    /\ UNCHANGED <<is_converting, gui_documents, current, succeeded, gui_inaccessible,
                   gui_errors, started, completed, observed>>
    /\ UNCHANGED notGui

\* finally: cleanup and _set_converting_state(False)
WorkerFinally ==
    /\ wpc = "finally"
    /\ is_converting' = FALSE
    /\ wpc' = "ended"
    /\ UNCHANGED <<gui_documents, current, succeeded, gui_inaccessible, gui_errors,
                   started, completed, observed, generated>>
    /\ UNCHANGED notGui

GuiNext ==
    \/ GuiStartConversion
    \/ GuiCancel
    \/ WorkerGetDocuments
    \/ WorkerLoopEnd
    \/ WorkerNextDocument
    \/ WorkerConvertEnds
    \/ WorkerAfterLoop
    \/ WorkerGenerate
    \/ WorkerFinally

\* one conversion started from the window
InitGui ==
    GuiInit /\ ImgIdle /\ NavIdle /\ RunIdle /\ FmtIdle /\ UtilIdle /\ CfgIdle /\ DocsIdle /\ CliIdle

SpecGui == InitGui /\ [][GuiNext]_vars

\* C25: cancellation is checked between documents only: whenever the cancel
\* callback runs, a conversion that has started ends (every started document
\* is completed, or is the one being converted), no conversion starts once
\* the worker has read the flag as cleared, and the configuration is
\* generated only if the worker never read the flag as cleared.
C25_CancelBetweenDocumentsOnly ==
    /\ \A k \in 1..Len(started) :
          /\ started[k].flag
          /\ \/ \E c \in 1..Len(completed) : completed[c] = started[k].doc
             \/ wpc = "converting" /\ current = started[k].doc
    /\ observed => /\ wpc \notin {"converting", "generate"}
                   /\ Len(started) = Len(completed)
    /\ generated > 0 => ~observed
    /\ generated <= 1

\* C25 witness: Cancel was pressed while the first of two documents was
\* being converted; that conversion ended, the second never started and no
\* configuration was generated.
C25_Witness ==
    /\ wpc = "ended" /\ Len(gui_documents) = 2
    /\ observed /\ generated = 0
    /\ Len(started) = 1 /\ completed = <<1>> /\ current = 1

====
